---- MODULE Spec2Model ----
(***************************************************************************)
(* Model of the campus chatbot backend:                                    *)
(*   app/services/llm_followups.py  (follow-up generator)                  *)
(*   app/routers/chatbot.py         (request handlers)                     *)
(* Python strings are TLA+ strings; Len, SubSeq and \o act on them         *)
(* character by character.  One behaviour of the model is one request:     *)
(* Init draws the request and the configuration, the actions are the       *)
(* handlers (the streamed handler one action per resumption of its         *)
(* generator), and every external collaborator (answer provider, document  *)
(* store, language-model API) answers nondeterministically.                *)
(***************************************************************************)
EXTENDS Integers, Sequences, FiniteSets, TLC

VARIABLES req, cfg, pc, stream, pos, full_answer, events, resp, fu

vars == <<req, cfg, pc, stream, pos, full_answer, events, resp, fu>>

(***************************************************************************)
(* Bounds of the model.                                                    *)
(***************************************************************************)
MaxChunks == 2

MaxK == 5

ExtraLen == 1

(***************************************************************************)
(* Python str primitives.                                                  *)
(***************************************************************************)
Upper == "ABCDEFGHIJKLMNOPQRSTUVWXYZ"

Lower == "abcdefghijklmnopqrstuvwxyz"

Whitespace == {" ", "\t", "\n", "\r", "\f"}

Min(a, b) == IF a < b THEN a ELSE b

Max(a, b) == IF a < b THEN b ELSE a

CharAt(s, i) == SubSeq(s, i, i)

\* the lower-case letter of each upper-case ASCII letter
LowerOf ==
  [c \in { CharAt(Upper, i) : i \in 1..Len(Upper) } |->
     CharAt(Lower, CHOOSE i \in 1..Len(Upper) : CharAt(Upper, i) = c)]

\* c.lower() for one character
LowerChar(c) == IF c \in DOMAIN LowerOf THEN LowerOf[c] ELSE c

RECURSIVE LowerFrom(_, _)
LowerFrom(s, i) ==
  IF i > Len(s) THEN "" ELSE LowerChar(CharAt(s, i)) \o LowerFrom(s, i + 1)

\* s.lower()
ToLower(s) == LowerFrom(s, 1)

\* sub in s, at a position >= from
ContainsFrom(s, sub, from) ==
  \E i \in from..(Len(s) - Len(sub) + 1) : SubSeq(s, i, i + Len(sub) - 1) = sub

\* sub in s
Contains(s, sub) == ContainsFrom(s, sub, 1)

\* s.find(sub, from): the least position >= from where sub occurs, 0 if none
FindFrom(s, sub, from) ==
  IF ContainsFrom(s, sub, from)
  THEN CHOOSE i \in from..(Len(s) - Len(sub) + 1) :
         /\ SubSeq(s, i, i + Len(sub) - 1) = sub
         /\ \A j \in from..(i - 1) : SubSeq(s, j, j + Len(sub) - 1) # sub
  ELSE 0

\* s.endswith(suffix)
EndsWith(s, suffix) ==
  /\ Len(s) >= Len(suffix)
  /\ SubSeq(s, Len(s) - Len(suffix) + 1, Len(s)) = suffix

\* the first position >= i of s that holds no whitespace (Len(s) + 1 if none)
RECURSIVE SkipWs(_, _)
SkipWs(s, i) ==
  IF i <= Len(s) /\ CharAt(s, i) \in Whitespace THEN SkipWs(s, i + 1) ELSE i

\* the last position <= i of s that holds no whitespace (0 if none)
RECURSIVE SkipWsBack(_, _)
SkipWsBack(s, i) ==
  IF i >= 1 /\ CharAt(s, i) \in Whitespace THEN SkipWsBack(s, i - 1) ELSE i

\* s.strip()
Strip(s) == SubSeq(s, SkipWs(s, 1), SkipWsBack(s, Len(s)))

\* s[:n] of a string
Truncate(s, n) == SubSeq(s, 1, Min(Len(s), n))

\* xs[:n] of a list
Take(xs, n) == SubSeq(xs, 1, Min(Len(xs), Max(n, 0)))

\* c * n
RECURSIVE Repeat(_, _)
Repeat(c, n) == IF n <= 0 THEN "" ELSE c \o Repeat(c, n - 1)

(***************************************************************************)
(* Values that cross the boundary to the external collaborators.           *)
(***************************************************************************)
\* a Python value that is a str or None
PyStr(t) == [none |-> FALSE, text |-> t]

PyNone == [none |-> TRUE, text |-> ""]

\* x or ""
OrEmpty(v) == IF v.none THEN "" ELSE v.text

\* outcome of one call of an external collaborator that returns text
Returned(t) == [raised |-> FALSE, text |-> t]

Raised == [raised |-> TRUE, text |-> ""]

\* outcome of one query of the document store
Found(hs) == [raised |-> FALSE, hits |-> hs]

QueryFailed == [raised |-> TRUE, hits |-> <<>>]

\* a knowledge hit; a missing, None or empty title is the empty string
Hit(t) == [title |-> t]

(***************************************************************************)
(* llm_followups.py: escalation decision.                                  *)
(***************************************************************************)
ESCALATION_KEYWORDS ==
  { "agent", "human", "person", "representative", "talk to someone",
    "talk to admin", "live chat", "connect me", "escalate", "call",
    "phone", "help desk", "support" }

low_conf ==
  << "i'm not sure", "no information", "could not find", "not available",
     "i don't have", "unable to find" >>

\* _wants_human without the lower()
_wants_human_CaseSensitive(text) ==
  \E k \in ESCALATION_KEYWORDS : Contains(text, k)

_wants_human(text) ==
  LET q == ToLower(text) IN \E k \in ESCALATION_KEYWORDS : Contains(q, k)

_should_offer_live_chat(user_q, answer_text, hits) ==
  IF _wants_human(user_q) THEN TRUE
  ELSE LET a == ToLower(answer_text)
       IN  \E i \in 1..Len(low_conf) : Contains(a, low_conf[i])

(***************************************************************************)
(* llm_followups.py: the document-store query.  `outcome` is what the      *)
(* store does with the query if it is sent.                                *)
(***************************************************************************)
SearchLimit == 8

\* not (query and query.strip())
Blank(query) == query = "" \/ Strip(query) = ""

_mongo_text_search(query, limit, outcome) ==
  IF Blank(query) THEN Found(<<>>)
  ELSE IF outcome.raised THEN QueryFailed
  ELSE Found(Take(outcome.hits, limit))

(***************************************************************************)
(* llm_followups.py: _safe_json_list.  json.loads is modelled character by *)
(* character for the JSON texts the model draws: optional whitespace, then *)
(* an array whose elements are strings without escapes or unsigned         *)
(* integers.  Any other text is no JSON array here.  An element is         *)
(* [str |-> is it a JSON string, val |-> its text].                        *)
(***************************************************************************)
JsonWs == {" ", "\t", "\n", "\r"}

Digits == {"0", "1", "2", "3", "4", "5", "6", "7", "8", "9"}

NotJson == [ok |-> FALSE, items |-> <<>>]

RECURSIVE JsonSkip(_, _)
JsonSkip(s, i) ==
  IF i <= Len(s) /\ CharAt(s, i) \in JsonWs THEN JsonSkip(s, i + 1) ELSE i

RECURSIVE DigitsEnd(_, _)
DigitsEnd(s, i) ==
  IF i <= Len(s) /\ CharAt(s, i) \in Digits THEN DigitsEnd(s, i + 1) ELSE i

\* after the closing bracket at position i only whitespace may follow
JsonClose(s, i, acc) ==
  IF JsonSkip(s, i + 1) = Len(s) + 1 THEN [ok |-> TRUE, items |-> acc]
  ELSE NotJson

\* the elements of an array from position i, the start of an element
RECURSIVE JsonElems(_, _, _)
JsonElems(s, i, acc) ==
  LET quoted == i <= Len(s) /\ CharAt(s, i) = "\""
      number == i <= Len(s) /\ CharAt(s, i) \in Digits
      close  == IF quoted THEN FindFrom(s, "\"", i + 1) ELSE 0
      body   == SubSeq(s, i + 1, close - 1)
      plain  == \A j \in 1..Len(body) :
                  CharAt(body, j) \notin {"\\", "\n", "\r", "\t", "\f"}
      stop   == IF quoted THEN close + 1 ELSE DigitsEnd(s, i)
      elem   == IF quoted THEN [str |-> TRUE, val |-> body]
                ELSE [str |-> FALSE, val |-> SubSeq(s, i, stop - 1)]
      next   == JsonSkip(s, stop)
  IN  IF quoted /\ (close = 0 \/ ~plain) THEN NotJson
      ELSE IF ~quoted /\ ~number THEN NotJson
      ELSE IF next > Len(s) THEN NotJson
      ELSE IF CharAt(s, next) = ","
        THEN JsonElems(s, JsonSkip(s, next + 1), Append(acc, elem))
      ELSE IF CharAt(s, next) = "]" THEN JsonClose(s, next, Append(acc, elem))
      ELSE NotJson

\* json.loads(s) giving a list
json_loads_list(s) ==
  LET open  == JsonSkip(s, 1)
      first == JsonSkip(s, open + 1)
  IN  IF open > Len(s) \/ CharAt(s, open) # "[" THEN NotJson
      ELSE IF first <= Len(s) /\ CharAt(s, first) = "]"
        THEN JsonClose(s, first, <<>>)
      ELSE JsonElems(s, first, <<>>)

\* [str(x) for x in data if isinstance(x, str)]
RECURSIVE StrItems(_)
StrItems(items) ==
  IF items = <<>> THEN <<>>
  ELSE IF Head(items).str THEN <<Head(items).val>> \o StrItems(Tail(items))
  ELSE StrItems(Tail(items))

\* the last position of s that holds c (0 if none)
RECURSIVE LastIndexOf(_, _, _)
LastIndexOf(s, c, i) ==
  IF i < 1 THEN 0
  ELSE IF CharAt(s, i) = c THEN i
  ELSE LastIndexOf(s, c, i - 1)

\* re.search(r"\[[\s\S]*\]", s): from the first "[" to the last "]" after it
BracketFragment(s) ==
  LET open  == FindFrom(s, "[", 1)
      close == LastIndexOf(s, "]", Len(s))
  IN  IF open # 0 /\ close > open
      THEN [found |-> TRUE, frag |-> SubSeq(s, open, close)]
      ELSE [found |-> FALSE, frag |-> ""]

_safe_json_list(s) ==
  LET whole == json_loads_list(s)
      m     == BracketFragment(s)
      part  == json_loads_list(m.frag)
  IN  IF s = "" THEN <<>>
      ELSE IF whole.ok THEN StrItems(whole.items)
      ELSE IF m.found /\ part.ok THEN StrItems(part.items)
      ELSE <<>>

(***************************************************************************)
(* llm_followups.py: the language-model call.  v1 is what the current      *)
(* client does (anything raised inside the try block, a None content       *)
(* included, is `raised`), v0 what the legacy client does if it is tried.  *)
(***************************************************************************)
llm_complete(v1, v0) ==
  IF ~v1.raised
  THEN [raised |-> FALSE, text |-> Strip(v1.text), calls |-> <<"v1">>]
  ELSE IF ~v0.raised
  THEN [raised |-> FALSE, text |-> Strip(v0.text), calls |-> <<"v1", "v0">>]
  ELSE [raised |-> TRUE, text |-> "", calls |-> <<"v1", "v0">>]

\* s = it.strip(); if s.endswith("?"): s = s[:-1]
CleanItem(it) ==
  LET s == Strip(it)
  IN  IF EndsWith(s, "?") THEN SubSeq(s, 1, Len(s) - 1) ELSE s

\* the loop with `seen` holding the suggestions as they are, not lower-cased
RECURSIVE UniqLoop_CaseSensitive(_, _, _, _)
UniqLoop_CaseSensitive(items, k, uniq, seen) ==
  IF items = <<>> THEN uniq
  ELSE LET s     == CleanItem(Head(items))
           fresh == s # "" /\ s \notin seen
           uniq2 == IF fresh THEN Append(uniq, s) ELSE uniq
           seen2 == IF fresh THEN seen \cup {s} ELSE seen
       IN  IF Len(uniq2) >= k THEN uniq2
           ELSE UniqLoop_CaseSensitive(Tail(items), k, uniq2, seen2)

\* the loop of _llm_generate_followups over the remaining items
RECURSIVE UniqLoop(_, _, _, _)
UniqLoop(items, k, uniq, seen) ==
  IF items = <<>> THEN uniq
  ELSE LET s     == CleanItem(Head(items))
           fresh == s # "" /\ ToLower(s) \notin seen
           uniq2 == IF fresh THEN Append(uniq, s) ELSE uniq
           seen2 == IF fresh THEN seen \cup {ToLower(s)} ELSE seen
       IN  IF Len(uniq2) >= k THEN uniq2
           ELSE UniqLoop(Tail(items), k, uniq2, seen2)

\* the prompt's knowledge lines: the stripped titles of candidates[:10]
RECURSIVE CtxLines(_)
CtxLines(cands) ==
  IF cands = <<>> THEN <<>>
  ELSE LET t == Strip(Head(cands).title)
       IN  (IF t # "" THEN <<t>> ELSE <<>>) \o CtxLines(Tail(cands))

PromptCandidates == 10

_llm_generate_followups(user_q, answer_text, candidates, k, v1, v0) ==
  LET ctx  == CtxLines(Take(candidates, PromptCandidates))
      done == llm_complete(v1, v0)
  IN  [raised |-> done.raised,
       calls  |-> done.calls,
       ctx    |-> ctx,
       uniq   |-> IF done.raised THEN <<>>
                  ELSE UniqLoop(_safe_json_list(done.text), k, <<>>, {})]

(***************************************************************************)
(* llm_followups.py: build_llm_style_followups.  settings is the           *)
(* configuration, env the outcomes of the external calls: mq and ma of the *)
(* document store queried with the question and with the answer, v1 and v0 *)
(* of the two language-model clients.                                      *)
(***************************************************************************)
HARDCODED ==
  << "application deadlines for scholarships",
     "GPA needed for freshman admission",
     "who is my admissions counselor",
     "how to apply for scholarships" >>

TitleHits == 6

\* [h.get("title", "") for h in hits if h.get("title")]
RECURSIVE Titles(_)
Titles(hits) ==
  IF hits = <<>> THEN <<>>
  ELSE (IF Head(hits).title # "" THEN <<Head(hits).title>> ELSE <<>>)
       \o Titles(Tail(hits))

FaqChip(s) == [label |-> s, payload |-> [type |-> "faq", query |-> s]]

Chips(suggestions) == [i \in 1..Len(suggestions) |-> FaqChip(suggestions[i])]

\* lines 187-196: the suggestions when the model gave none
\* lines 188-196 with the titles taken from every hit
FallbackSuggestions_AllHits(hits, k) ==
  IF Take(Titles(hits), k) # <<>> THEN Take(Titles(hits), k)
  ELSE Take(HARDCODED, k)

FallbackSuggestions(hits, k) ==
  LET base == Titles(Take(hits, TitleHits))
  IN  IF Take(base, k) # <<>> THEN Take(base, k) ELSE Take(HARDCODED, k)

\* what the call gives when an exception leaves it
Propagated(searches) ==
  [raised |-> TRUE, chips |-> <<>>, suggest_live_chat |-> FALSE,
   source |-> "", hits |-> <<>>, searches |-> searches,
   llm_calls |-> <<>>, llm_raised |-> FALSE]

\* chips[:k] of line 200, without the cap
CapChips_Uncapped(chips, k) == chips

\* chips[:k] of line 200
CapChips(chips, k) == Take(chips, k)

\* the source, with the except clause of lines 182-185 leaving it as it was
FollowupSource_ErrorUnmarked(use_llm, gen) ==
  IF use_llm /\ ~gen.raised /\ gen.uniq # <<>> THEN "openai" ELSE "fallback"

\* the source as lines 175-185 set it
FollowupSource(use_llm, gen) ==
  IF ~use_llm THEN "fallback"
  ELSE IF gen.raised THEN "fallback_error"
  ELSE IF gen.uniq # <<>> THEN "openai"
  ELSE "fallback"

\* lines 174-200, once the hits are known; gen is what
\* _llm_generate_followups does if it is called
FollowupsFromHits(user_question, answer_text, k, use_llm, hits, searches, gen) ==
  [raised |-> FALSE,
   chips |-> CapChips(Chips(IF use_llm /\ ~gen.raised /\ gen.uniq # <<>>
                            THEN gen.uniq
                            ELSE FallbackSuggestions(hits, k)), k),
   suggest_live_chat |->
     _should_offer_live_chat(user_question, answer_text, Len(hits)),
   source |-> FollowupSource(use_llm, gen),
   hits |-> hits,
   searches |-> searches,
   llm_calls |-> IF use_llm THEN gen.calls ELSE <<>>,
   llm_raised |-> use_llm /\ gen.raised]

\* lines 170-172 and the exception they let through; found is the outcome
\* of the last search made
FollowupsFromSearch(user_question, answer_text, k, settings, env, found, searches) ==
  IF found.raised THEN Propagated(searches)
  ELSE FollowupsFromHits(
         user_question, answer_text, k,
         settings.use_llm_followups /\ settings.openai_api_key # "",
         found.hits, searches,
         _llm_generate_followups(user_question, answer_text, found.hits, k,
                                 env.v1, env.v0))

\* the queries sent to the document store
Sent(query) == IF Blank(query) THEN <<>> ELSE <<query>>

\* line 171, with the outcome of the first search
FollowupsAfterFirst(user_question, answer_text, k, settings, env, first) ==
  IF ~first.raised /\ first.hits = <<>> /\ answer_text # ""
  THEN FollowupsFromSearch(
         user_question, answer_text, k, settings, env,
         _mongo_text_search(answer_text, SearchLimit, env.ma),
         Sent(user_question) \o Sent(answer_text))
  ELSE FollowupsFromSearch(user_question, answer_text, k, settings, env,
                           first, Sent(user_question))

build_llm_style_followups(user_question, answer_text, k, settings, env) ==
  FollowupsAfterFirst(user_question, answer_text, k, settings, env,
                      _mongo_text_search(user_question, SearchLimit, env.mq))

(***************************************************************************)
(* chatbot.py: analyze_ticket_request.                                     *)
(***************************************************************************)
\* the end of the line that holds position p: `.` matches all but "\n"
RECURSIVE LineEnd(_, _)
LineEnd(s, p) ==
  IF p < Len(s) /\ CharAt(s, p + 1) # "\n" THEN LineEnd(s, p + 1) ELSE p

\* the last position in j..i of s that holds no "\n" (0 if none)
RECURSIVE LastNonNewline(_, _, _)
LastNonNewline(s, j, i) ==
  IF i < j THEN 0
  ELSE IF CharAt(s, i) # "\n" THEN i
  ELSE LastNonNewline(s, j, i - 1)

\* \s*(.+) matched at position j: \s* takes the longest run of whitespace
\* that leaves .+ a character to take, and .+ takes the rest of the line
\* (of the text, with re.DOTALL)
GroupAt(s, j, dotall) ==
  LET p == SkipWs(s, j)
      q == IF dotall THEN (IF Len(s) >= j THEN Len(s) ELSE 0)
           ELSE LastNonNewline(s, j, Len(s))
  IN  IF p <= Len(s)
      THEN [found |-> TRUE,
            group |-> SubSeq(s, p, IF dotall THEN Len(s) ELSE LineEnd(s, p))]
      ELSE IF q # 0 THEN [found |-> TRUE, group |-> CharAt(s, q)]
      ELSE [found |-> FALSE, group |-> ""]

\* re.search(label + r"\s*(.+)", s, flags), looking from position `from`
RECURSIVE LabelSearch(_, _, _, _)
LabelSearch(s, label, dotall, from) ==
  LET i == FindFrom(s, label, from)
      m == GroupAt(s, i + Len(label), dotall)
  IN  IF i = 0 THEN [found |-> FALSE, group |-> ""]
      ELSE IF m.found THEN m
      ELSE LabelSearch(s, label, dotall, i + 1)

re_search(label, s, dotall) == LabelSearch(s, label, dotall, 1)

valid_categories ==
  << "Technical Support", "Academic", "Financial", "Housing",
     "Registration", "Other" >>

valid_priorities == << "Low", "Medium", "High" >>

InList(x, xs) == \E i \in 1..Len(xs) : xs[i] = x

\* the validation of lines 136-141 comparing without regard to case
ValidOr_IgnoreCase(value, valid, default) ==
  IF \E i \in 1..Len(valid) : ToLower(valid[i]) = ToLower(value) THEN value
  ELSE default

\* lines 136-137 and 140-141: if value not in valid: value = default
ValidOr(value, valid, default) ==
  IF InList(value, valid) THEN value ELSE default

SubjectLimit == 100

\* the defaults of lines 151-156 without the message
TicketDefaults_EmptyDescription(message) ==
  [subject |-> "Support Request", category |-> "Other",
   priority |-> "Medium", description |-> ""]

TicketDefaults(message) ==
  [subject |-> "Support Request", category |-> "Other",
   priority |-> "Medium", description |-> message]

\* `outcome` is what get_answer does: it raises, or returns a value that
\* is a str or not
analyze_ticket_request(message, outcome) ==
  LET answer            == outcome.value.text
      subject_match     == re_search("SUBJECT:", answer, FALSE)
      category_match    == re_search("CATEGORY:", answer, FALSE)
      priority_match    == re_search("PRIORITY:", answer, FALSE)
      description_match == re_search("DESCRIPTION:", answer, TRUE)
      subject     == IF subject_match.found THEN Strip(subject_match.group)
                     ELSE "Support Request"
      category    == IF category_match.found THEN Strip(category_match.group)
                     ELSE "Other"
      priority    == IF priority_match.found THEN Strip(priority_match.group)
                     ELSE "Medium"
      description == IF description_match.found
                     THEN Strip(description_match.group)
                     ELSE message
  IN  IF outcome.raised \/ outcome.value.none THEN TicketDefaults(message)
      ELSE [subject |-> Truncate(subject, SubjectLimit),
            category |-> ValidOr(category, valid_categories, "Other"),
            priority |-> ValidOr(priority, valid_priorities, "Medium"),
            description |-> description]

(***************************************************************************)
(* chatbot.py: analyze_map_request.  The alias table in declaration order  *)
(* (a Python dict iterates in insertion order); lat and lng are kept as    *)
(* the decimal text of the source.                                         *)
(***************************************************************************)
Building(name, lat, lng, address, description, hours) ==
  [name |-> name, lat |-> lat, lng |-> lng, address |-> address,
   description |-> description, hours |-> hours]

MaryAndJeffBellLibrary ==
  Building("Mary and Jeff Bell Library",
           "27.713788736691168", "-97.32474868648656",
           "Mary and Jeff Bell Library, TAMUCC",
           "Main library with study spaces and research resources",
           "Mon-Fri 7:30am-11pm")

UniversityCenter ==
  Building("University Center (UC)",
           "27.712071037382053", "-97.3257065414334",
           "University Center, TAMUCC",
           "Student hub with dining, bookstore, and meeting spaces",
           "Mon-Fri 7am-10pm")

IslanderDining ==
  Building("Islander Dining",
           "27.711621676963894", "-97.32258737277509",
           "Islander Dining, TAMUCC",
           "Main dining hall with multiple food stations",
           "Daily 7am-9pm")

NaturalResourcesCenter ==
  Building("Natural Resources Center (NRC)",
           "27.715332468715157", "-97.32880933649331",
           "Natural Resources Center, TAMUCC",
           "Environmental science and research facility",
           "Mon-Fri 8am-5pm")

EngineeringBuilding ==
  Building("Engineering Building",
           "27.712772225261283", "-97.32565431063824",
           "Engineering Building, TAMUCC",
           "College of Engineering classrooms and labs",
           "Mon-Fri 8am-6pm")

CorpusChristiHall ==
  Building("Corpus Christi Hall (CCH)",
           "27.71516058584113", "-97.32370567166191",
           "Corpus Christi Hall, TAMUCC",
           "Admissions, financial aid, and student services",
           "Mon-Fri 8am-5pm")

StudentServicesCenter ==
  Building("Student Services Center",
           "27.71374042156452", "-97.32390201020142",
           "Student Services Center, TAMUCC",
           "Student support services and administration",
           "Mon-Fri 8am-5pm")

BayHall ==
  Building("Bay Hall",
           "27.713613491472024", "-97.32348514338884",
           "Bay Hall, TAMUCC",
           "Business college classrooms and faculty offices",
           "Mon-Fri 8am-5pm")

CenterForTheSciences ==
  Building("Center for the Sciences",
           "27.712809298665885", "-97.32486990268086",
           "Center for the Sciences, TAMUCC",
           "Science labs and classrooms",
           "Mon-Fri 8am-6pm")

CollegeOfEducationAndHumanDevelopment ==
  Building("College of Education and Human Development",
           "27.713186318706956", "-97.32428916719182",
           "College of Education and Human Development, TAMUCC",
           "Education college offices and classrooms",
           "Mon-Fri 8am-5pm")

FacultyCenter ==
  Building("Faculty Center",
           "27.712820723536026", "-97.32358260567656",
           "Faculty Center, TAMUCC",
           "Faculty offices and meeting rooms",
           "Mon-Fri 8am-5pm")

DuganWellnessCenter ==
  Building("Dugan Wellness Center",
           "27.711601112024837", "-97.32413753070178",
           "Dugan Wellness Center, TAMUCC",
           "Student health services and counseling",
           "Mon-Fri 8am-5pm")

CollegeOfBusiness ==
  Building("College of Business",
           "27.714591440638948", "-97.32466461335527",
           "College of Business, TAMUCC",
           "College of Business and entrepreneurship programs",
           "Mon-Fri 8am-5pm")

TidalHall ==
  Building("Tidal Hall",
           "27.715529412703646", "-97.32710819211944",
           "Tidal Hall, TAMUCC",
           "Student housing residence hall",
           "24/7 for residents")

HarteResearchInstitute ==
  Building("Harte Research Institute",
           "27.713459500631362", "-97.32815759566772",
           "Harte Research Institute, TAMUCC",
           "Gulf of Mexico research and marine science",
           "Mon-Fri 8am-5pm")

UniversityCounselingCenter ==
  Building("University Counseling Center",
           "27.712490577148014", "-97.32168122550681",
           "University Counseling Center, TAMUCC",
           "Mental health and counseling services for students",
           "Mon-Fri 8am-5pm")

buildings ==
  << [key |-> "library", building |-> MaryAndJeffBellLibrary],
     [key |-> "university center", building |-> UniversityCenter],
     [key |-> "uc", building |-> UniversityCenter],
     [key |-> "dining", building |-> IslanderDining],
     [key |-> "islander dining", building |-> IslanderDining],
     [key |-> "natural resources", building |-> NaturalResourcesCenter],
     [key |-> "nrc", building |-> NaturalResourcesCenter],
     [key |-> "engineering", building |-> EngineeringBuilding],
     [key |-> "corpus christi hall", building |-> CorpusChristiHall],
     [key |-> "cch", building |-> CorpusChristiHall],
     [key |-> "student services", building |-> StudentServicesCenter],
     [key |-> "bay hall", building |-> BayHall],
     [key |-> "sciences", building |-> CenterForTheSciences],
     [key |-> "center for sciences", building |-> CenterForTheSciences],
     [key |-> "education", building |-> CollegeOfEducationAndHumanDevelopment],
     [key |-> "faculty center", building |-> FacultyCenter],
     [key |-> "wellness", building |-> DuganWellnessCenter],
     [key |-> "dugan", building |-> DuganWellnessCenter],
     [key |-> "health", building |-> DuganWellnessCenter],
     [key |-> "business", building |-> CollegeOfBusiness],
     [key |-> "tidal hall", building |-> TidalHall],
     [key |-> "harte", building |-> HarteResearchInstitute],
     [key |-> "counseling", building |-> UniversityCounselingCenter],
     [key |-> "counseling center", building |-> UniversityCounselingCenter] >>

PinEmoji == "(U+1F4CD)"

Located(building) ==
  [location |-> [none |-> FALSE, value |-> building],
   description |-> PinEmoji \o " Here's the location of the **"
                   \o building.name \o "**. " \o building.description \o "."]

NotLocated ==
  [location |-> [none |-> TRUE],
   description |-> "Here's the TAMUCC campus map showing all major buildings."]

\* key in message or building["name"].lower() in message
MapMatch(entry, message) ==
  \/ Contains(message, entry.key)
  \/ Contains(message, ToLower(entry.building.name))

\* the for loop of lines 363-368 from entry i on
RECURSIVE MapLoop(_, _)
MapLoop(message, i) ==
  IF i > Len(buildings) THEN NotLocated
  ELSE IF MapMatch(buildings[i], message) THEN Located(buildings[i].building)
  ELSE MapLoop(message, i + 1)

\* the handler without the lower() of line 166
analyze_map_request_CaseSensitive(raw) == MapLoop(raw, 1)

analyze_map_request(raw) == MapLoop(ToLower(raw), 1)

(***************************************************************************)
(* chatbot.py: analyze_routing_request.  Its alias table, in declaration   *)
(* order, holds the name and the coordinates of each building.             *)
(***************************************************************************)
RouteBuilding(name, lat, lng) == [name |-> name, lat |-> lat, lng |-> lng]

routing_buildings ==
  << [key |-> "library",
      building |-> RouteBuilding("Mary and Jeff Bell Library",
                                "27.713788736691168", "-97.32474868648656")],
     [key |-> "university center",
      building |-> RouteBuilding("University Center (UC)",
                                "27.712071037382053", "-97.3257065414334")],
     [key |-> "uc",
      building |-> RouteBuilding("University Center (UC)",
                                "27.712071037382053", "-97.3257065414334")],
     [key |-> "dining",
      building |-> RouteBuilding("Islander Dining",
                                "27.711621676963894", "-97.32258737277509")],
     [key |-> "islander dining",
      building |-> RouteBuilding("Islander Dining",
                                "27.711621676963894", "-97.32258737277509")],
     [key |-> "natural resources",
      building |-> RouteBuilding("Natural Resources Center (NRC)",
                                "27.715332468715157", "-97.32880933649331")],
     [key |-> "nrc",
      building |-> RouteBuilding("Natural Resources Center (NRC)",
                                "27.715332468715157", "-97.32880933649331")],
     [key |-> "engineering",
      building |-> RouteBuilding("Engineering Building",
                                "27.712772225261283", "-97.32565431063824")],
     [key |-> "corpus christi hall",
      building |-> RouteBuilding("Corpus Christi Hall (CCH)",
                                "27.71516058584113", "-97.32370567166191")],
     [key |-> "cch",
      building |-> RouteBuilding("Corpus Christi Hall (CCH)",
                                "27.71516058584113", "-97.32370567166191")],
     [key |-> "student services",
      building |-> RouteBuilding("Student Services Center",
                                "27.71374042156452", "-97.32390201020142")],
     [key |-> "bay hall",
      building |-> RouteBuilding("Bay Hall",
                                "27.713613491472024", "-97.32348514338884")],
     [key |-> "sciences",
      building |-> RouteBuilding("Center for the Sciences",
                                "27.712809298665885", "-97.32486990268086")],
     [key |-> "center for sciences",
      building |-> RouteBuilding("Center for the Sciences",
                                "27.712809298665885", "-97.32486990268086")],
     [key |-> "education",
      building |-> RouteBuilding("College of Education and Human Development",
                                "27.713186318706956", "-97.32428916719182")],
     [key |-> "faculty center",
      building |-> RouteBuilding("Faculty Center",
                                "27.712820723536026", "-97.32358260567656")],
     [key |-> "wellness",
      building |-> RouteBuilding("Dugan Wellness Center",
                                "27.711601112024837", "-97.32413753070178")],
     [key |-> "dugan",
      building |-> RouteBuilding("Dugan Wellness Center",
                                "27.711601112024837", "-97.32413753070178")],
     [key |-> "health",
      building |-> RouteBuilding("Dugan Wellness Center",
                                "27.711601112024837", "-97.32413753070178")],
     [key |-> "business",
      building |-> RouteBuilding("College of Business",
                                "27.714591440638948", "-97.32466461335527")],
     [key |-> "tidal hall",
      building |-> RouteBuilding("Tidal Hall",
                                "27.715529412703646", "-97.32710819211944")],
     [key |-> "harte",
      building |-> RouteBuilding("Harte Research Institute",
                                "27.713459500631362", "-97.32815759566772")],
     [key |-> "counseling",
      building |-> RouteBuilding("University Counseling Center",
                                "27.712490577148014", "-97.32168122550681")],
     [key |-> "counseling center",
      building |-> RouteBuilding("University Counseling Center",
                                "27.712490577148014", "-97.32168122550681")] >>

routing_patterns ==
  << <<"from", "to">>, <<"between", "and">>, <<"get to", "from">> >>

\* a variable that holds None, or a building
NoBuilding == [none |-> TRUE]

SomeBuilding(b) == [none |-> FALSE, value |-> b]

\* s.split(sep)
RECURSIVE Split(_, _)
Split(s, sep) ==
  IF FindFrom(s, sep, 1) = 0 THEN <<s>>
  ELSE <<SubSeq(s, 1, FindFrom(s, sep, 1) - 1)>>
       \o Split(SubSeq(s, FindFrom(s, sep, 1) + Len(sep), Len(s)), sep)

NoSplit == [ok |-> FALSE, origin_text |-> "", dest_text |-> ""]

\* lines 429-432, with parts[1]
SecondSplit(second_part) ==
  IF Len(second_part) > 1
  THEN [ok |-> TRUE, origin_text |-> Strip(second_part[1]),
        dest_text |-> Strip(second_part[2])]
  ELSE NoSplit

\* lines 427-428, with parts
FirstSplit(parts, second) ==
  IF Len(parts) > 1 THEN SecondSplit(Split(parts[2], second)) ELSE NoSplit

\* lines 426-432: the origin text and the destination text one pattern
\* gives, if its split succeeds
PatternSplit(message, pattern) ==
  IF Contains(message, pattern[1]) /\ Contains(message, pattern[2])
  THEN FirstSplit(Split(message, pattern[1]), pattern[2])
  ELSE NoSplit

\* the loop of lines 434-438 for one of the two texts, from entry i on:
\* every alias found in the text assigns the variable
RECURSIVE RouteResolve(_, _, _)
RouteResolve(text, i, current) ==
  IF i > Len(routing_buildings) THEN current
  ELSE RouteResolve(
         text, i + 1,
         IF Contains(text, routing_buildings[i].key)
            \/ routing_buildings[i].key = text
         THEN SomeBuilding(routing_buildings[i].building)
         ELSE current)

\* lines 431-438 with each variable assigned None when its text holds no
\* alias
ResolveBoth_Reset(split, acc) ==
  [origin |-> RouteResolve(split.origin_text, 1, NoBuilding),
   destination |-> RouteResolve(split.dest_text, 1, NoBuilding)]

\* lines 431-438: origin and destination after the alias loop
ResolveBoth(split, acc) ==
  [origin |-> RouteResolve(split.origin_text, 1, acc.origin),
   destination |-> RouteResolve(split.dest_text, 1, acc.destination)]

\* one turn of the loop of line 425
ApplyPattern(split, acc) == IF split.ok THEN ResolveBoth(split, acc) ELSE acc

\* the loop of lines 425-438 from pattern i on
RECURSIVE PatternLoop(_, _, _)
PatternLoop(message, i, acc) ==
  IF i > Len(routing_patterns) THEN acc
  ELSE PatternLoop(message, i + 1,
                   ApplyPattern(PatternSplit(message, routing_patterns[i]),
                                acc))

NotRouted ==
  [origin |-> NoBuilding, destination |-> NoBuilding, found |-> FALSE,
   message |-> "I couldn't identify both the origin and destination buildings. Please specify like 'directions from Library to UC' or 'how to get from NRC to Wellness Center'."]

\* lines 440-451
RoutingResult(final) ==
  IF ~final.origin.none /\ ~final.destination.none
  THEN [origin |-> final.origin, destination |-> final.destination,
        found |-> TRUE]
  ELSE NotRouted

analyze_routing_request(raw) ==
  RoutingResult(PatternLoop(ToLower(raw), 1,
                            [origin |-> NoBuilding,
                             destination |-> NoBuilding]))

(***************************************************************************)
(* The requests and the outcomes of the external collaborators that the    *)
(* model draws.                                                            *)
(***************************************************************************)
Questions ==
  { "", "how do I apply", "Talk To Someone", "could not find my ID" }

\* the chunks a streamed answer is made of
ChunkSet == { "Hi ", "I don't", " have it" }

RECURSIVE SeqsUpTo(_, _)
SeqsUpTo(S, n) ==
  IF n = 0 THEN { <<>> }
  ELSE SeqsUpTo(S, n - 1)
       \cup { Append(q, x) : q \in { r \in SeqsUpTo(S, n - 1) : Len(r) = n - 1 },
                             x \in S }

ChunkSeqs == SeqsUpTo(ChunkSet, MaxChunks)

\* what get_answer returns as the answer
SyncAnswers ==
  { PyNone, PyStr(""), PyStr("Hi there"), PyStr("Could NOT find it") }

\* the answers of the direct calls of build_llm_style_followups
DirectAnswers == { "", "see the reCALL page" }

\* ranked hits the document store may return
HitLists ==
  { <<>>,
    << Hit("Apply now"), Hit("apply now") >>,
    << Hit(""), Hit("Housing") >>,
    << Hit(""), Hit(""), Hit(""), Hit("Housing"), Hit("Parking"),
       Hit("Tuition"), Hit("Meal plans") >>,
    << Hit(""), Hit(""), Hit(""), Hit(""), Hit(""), Hit(""),
       Hit("Housing"), Hit("Parking") >>,
    << Hit("Housing"), Hit("Parking"), Hit("Tuition"), Hit("Meal plans"),
       Hit("Advising"), Hit("Clubs"), Hit("Library hours"), Hit("Fees") >> }

MongoOutcomes == { QueryFailed } \cup { Found(h) : h \in HitLists }

\* completion texts of the language model
LlmTexts ==
  { "[\"Apply now?\", \"apply now\", 3, \" Housing \", \"Fees\", \"Dorms\", \"Clubs\"]",
    "Sure: [\"When is it due\"] !",
    "[\" ?\", \"\"]",
    "not json" }

LlmOutcomes == { Raised } \cup { Returned(t) : t \in LlmTexts }

\* the outcomes of the external calls that a call of
\* build_llm_style_followups(q, a, ..) makes; a call that is not made has
\* one outcome
Envs(q, a, settings) ==
  LET noHits(mq) == ~mq.raised /\ mq.hits = <<>>
      MQ      == IF Blank(q) THEN { Found(<<>>) } ELSE MongoOutcomes
      MA(mq)  == IF noHits(mq) /\ ~Blank(a) THEN MongoOutcomes
                 ELSE { Found(<<>>) }
      llm(mq, ma) == /\ settings.use_llm_followups
                     /\ settings.openai_api_key # ""
                     /\ ~mq.raised /\ ~ma.raised
      V1(mq, ma)  == IF llm(mq, ma) THEN LlmOutcomes ELSE { Raised }
      V0(mq, ma, v1) == IF llm(mq, ma) /\ v1.raised THEN LlmOutcomes
                        ELSE { Raised }
  IN  UNION { UNION { UNION { { [mq |-> mq, ma |-> ma, v1 |-> v1, v0 |-> v0]
                                : v0 \in V0(mq, ma, v1) }
                              : v1 \in V1(mq, ma) }
                      : ma \in MA(mq) }
              : mq \in MQ }

Settings ==
  [use_llm_followups : BOOLEAN, openai_api_key : {"", "sk-test"},
   debug_followups : BOOLEAN]

TicketMessages == { "", "my wifi is broken" }

TicketText(subject, category) ==
  "SUBJECT: " \o subject \o "\nCATEGORY: " \o category
  \o "\nPRIORITY: Low\nDESCRIPTION: fees"

TicketTexts ==
  { "SUBJECT: Wifi down\nCATEGORY: Technical Support\nPRIORITY: High\nDESCRIPTION: The wifi\nis down\n",
    "SUBJECT: Room\nCATEGORY: housing\nPRIORITY: Urgent\nDESCRIPTION: no heat",
    "Subject:\nCATEGORY: Academic \nPRIORITY:high",
    "SUBJECT:\nCATEGORY: Registration\n",
    "I cannot help with that.",
    "",
    TicketText(Repeat("x", SubjectLimit - 1), "Financial"),
    TicketText(Repeat("x", SubjectLimit), "Financial"),
    TicketText(Repeat("x", SubjectLimit + ExtraLen), "Financial"),
    TicketText(Repeat("x", SubjectLimit + ExtraLen), "Finance") }

\* what get_answer does for the ticket prompt
TicketOutcomes ==
  { [raised |-> TRUE, value |-> PyNone], [raised |-> FALSE, value |-> PyNone] }
  \cup { [raised |-> FALSE, value |-> PyStr(t)] : t \in TicketTexts }

MapMessages ==
  { "Where is the UC", "where is the uc", "show me campus", "", "uc dining or library",
    "tips for success", "Center for the Sciences lab",
    "is the University Center (UC) open", "DUGAN health",
    "counseling center hours", "the corpus christi hall and the cch",
    "walk to bay hall from tidal hall" }

\* the aliases the routing messages name
RouteAliases == { "library", "uc", "education", "islander dining" }

GetToMessage(x, y) == "how do I get to " \o x \o " from " \o y

FromToMessage(y, x) == "directions from " \o y \o " to " \o x

RoutingMessages ==
  { GetToMessage(x, y) : x, y \in RouteAliases }
  \cup { FromToMessage(y, x) : x, y \in RouteAliases }
  \cup { "", "how do I get somewhere", "Between Library and UC",
         "get to the gym from library to uc",
         "from library to uc and get to dining from nrc",
         "from library and uc to dining",
         "from the auditorium to uc",
         "from library to the moon" }

\* k=4 of the two question-answering handlers
FollowupCount == 4

Requests ==
  [endpoint : {"chat_question", "chat_question_stream"},
   text : Questions, k : {FollowupCount}]
  \cup [endpoint : {"build_llm_style_followups"}, text : Questions,
        k : 0..MaxK]
  \cup [endpoint : {"analyze_ticket"}, text : TicketMessages, k : {0}]
  \cup [endpoint : {"analyze_map_request"}, text : MapMessages, k : {0}]
  \cup [endpoint : {"analyze_routing_request"}, text : RoutingMessages,
        k : {0}]

NoFollowups == [called |-> FALSE]

NoResponse == [status |-> 0]

\* an exception that leaves a handler: the framework answers 500
ServerError == [status |-> 500]

Init ==
  /\ req \in Requests
  /\ cfg \in Settings
  /\ pc = "start"
  /\ stream \in IF req.endpoint = "chat_question_stream" THEN ChunkSeqs
                ELSE { <<>> }
  /\ pos = 0
  /\ full_answer = ""
  /\ events = <<>>
  /\ resp = NoResponse
  /\ fu = NoFollowups

(***************************************************************************)
(* chatbot.py: the question-answering handlers.                            *)
(***************************************************************************)
EscalateChip ==
  [label |-> "Talk to an admin",
   payload |-> [type |-> "action", action |-> "escalate"]]

\* lines 29-32 with the escalation chip added to the chips, not replacing
\* them
FinalChips_Appended(out) ==
  IF out.suggest_live_chat THEN Append(out.chips, EscalateChip)
  ELSE out.chips

\* lines 29-32 and 60-63
FinalChips(out) == IF out.suggest_live_chat THEN <<EscalateChip>> ELSE out.chips

\* the record of one call of build_llm_style_followups: its arguments, what
\* the external calls did, and what it gave
Called(q, a, k, env, out) ==
  [called |-> TRUE, question |-> q, answer_text |-> a, k |-> k, env |-> env,
   out |-> out]

\* the body of the response of chat_question
ChatResponse(answer, out, settings) ==
  IF settings.debug_followups
  THEN [status |-> 200, answer |-> answer,
        suggest_live_chat |-> out.suggest_live_chat,
        suggested_followups |-> FinalChips(out),
        followup_generator |-> out.source]
  ELSE [status |-> 200, answer |-> answer,
        suggest_live_chat |-> out.suggest_live_chat,
        suggested_followups |-> FinalChips(out)]

\* the followups event of chat_question_stream
FollowupsEvent(out, settings) ==
  IF settings.debug_followups
  THEN [type |-> "followups",
        suggest_live_chat |-> out.suggest_live_chat,
        suggested_followups |-> FinalChips(out),
        followup_generator |-> out.source]
  ELSE [type |-> "followups",
        suggest_live_chat |-> out.suggest_live_chat,
        suggested_followups |-> FinalChips(out)]

ChunkEvent(chunk) == [type |-> "chunk", content |-> chunk]

DoneEvent == [type |-> "done"]

\* lines 29-41, or the exception of the call of line 23 leaving the handler
ChatQuestionReturns(answer, env, out) ==
  /\ fu' = Called(req.text, OrEmpty(answer), req.k, env, out)
  /\ full_answer' = OrEmpty(answer)
  /\ resp' = IF out.raised THEN ServerError ELSE ChatResponse(answer, out, cfg)
  /\ pc' = IF out.raised THEN "failed" ELSE "done"

\* POST /chat_question
ChatQuestion ==
  /\ pc = "start"
  /\ req.endpoint = "chat_question"
  /\ \E answer \in SyncAnswers :
       \E env \in Envs(req.text, OrEmpty(answer), cfg) :
         ChatQuestionReturns(
           answer, env,
           build_llm_style_followups(req.text, OrEmpty(answer), req.k, cfg,
                                     env))
  /\ UNCHANGED <<req, cfg, stream, pos, events>>

\* POST /chat_question_stream, event_generator resumed while the provider
\* has a chunk: lines 50-52
StreamChunk ==
  /\ pc = "start"
  /\ req.endpoint = "chat_question_stream"
  /\ pos < Len(stream)
  /\ pos' = pos + 1
  /\ full_answer' = full_answer \o stream[pos + 1]
  /\ events' = Append(events, ChunkEvent(stream[pos + 1]))
  /\ UNCHANGED <<req, cfg, pc, stream, resp, fu>>

\* lines 60-74, or the exception of the call of line 54 ending the generator
StreamFollowupsYields(env, out) ==
  /\ fu' = Called(req.text, full_answer, req.k, env, out)
  /\ events' = IF out.raised THEN events
               ELSE Append(events, FollowupsEvent(out, cfg))
  /\ pc' = IF out.raised THEN "failed" ELSE "followups"

\* event_generator resumed when the provider is exhausted: lines 54-74
StreamFollowups ==
  /\ pc = "start"
  /\ req.endpoint = "chat_question_stream"
  /\ pos = Len(stream)
  /\ \E env \in Envs(req.text, full_answer, cfg) :
       StreamFollowupsYields(
         env,
         build_llm_style_followups(req.text, full_answer, req.k, cfg, env))
  /\ UNCHANGED <<req, cfg, stream, pos, full_answer, resp>>

\* event_generator resumed after the followups event: line 75
StreamDone ==
  /\ pc = "followups"
  /\ events' = Append(events, DoneEvent)
  /\ pc' = "done"
  /\ UNCHANGED <<req, cfg, stream, pos, full_answer, resp, fu>>

BuildFollowupsReturns(answer, env, out) ==
  /\ fu' = Called(req.text, answer, req.k, env, out)
  /\ full_answer' = answer
  /\ pc' = IF out.raised THEN "failed" ELSE "done"

\* a direct call of build_llm_style_followups(user_question, answer_text, k)
BuildFollowups ==
  /\ pc = "start"
  /\ req.endpoint = "build_llm_style_followups"
  /\ \E answer \in DirectAnswers :
       \E env \in Envs(req.text, answer, cfg) :
         BuildFollowupsReturns(
           answer, env,
           build_llm_style_followups(req.text, answer, req.k, cfg, env))
  /\ UNCHANGED <<req, cfg, stream, pos, events, resp>>

\* POST /api/analyze_ticket
AnalyzeTicket ==
  /\ pc = "start"
  /\ req.endpoint = "analyze_ticket"
  /\ \E outcome \in TicketOutcomes :
       /\ resp' = [status |-> 200, outcome |-> outcome,
                   body |-> analyze_ticket_request(req.text, outcome)]
       /\ pc' = "done"
  /\ UNCHANGED <<req, cfg, stream, pos, full_answer, events, fu>>

\* POST /api/analyze_map_request
AnalyzeMap ==
  /\ pc = "start"
  /\ req.endpoint = "analyze_map_request"
  /\ resp' = [status |-> 200, body |-> analyze_map_request(req.text)]
  /\ pc' = "done"
  /\ UNCHANGED <<req, cfg, stream, pos, full_answer, events, fu>>

\* POST /api/analyze_routing_request
AnalyzeRouting ==
  /\ pc = "start"
  /\ req.endpoint = "analyze_routing_request"
  /\ resp' = [status |-> 200, body |-> analyze_routing_request(req.text)]
  /\ pc' = "done"
  /\ UNCHANGED <<req, cfg, stream, pos, full_answer, events, fu>>

Next ==
  \/ ChatQuestion
  \/ StreamChunk
  \/ StreamFollowups
  \/ StreamDone
  \/ BuildFollowups
  \/ AnalyzeTicket
  \/ AnalyzeMap
  \/ AnalyzeRouting

Spec == Init /\ [][Next]_vars

(***************************************************************************)
(* The claims.                                                             *)
(***************************************************************************)
Streamed == req.endpoint = "chat_question_stream"

\* the generator of the streamed handler has ended, normally or not
StreamEnded == Streamed /\ pc \in {"done", "failed"}

RECURSIVE Concat(_)
Concat(chunks) ==
  IF chunks = <<>> THEN "" ELSE Head(chunks) \o Concat(Tail(chunks))

Labels(chips) == [i \in 1..Len(chips) |-> chips[i].label]

\* C1: when the streamed handler has ended, for the n chunks the provider
\* produced it has emitted exactly n chunk events with those contents in
\* provider order, then one followups event computed from the concatenation
\* of the chunks, then one done event, and nothing else.
C1_StreamIsChunksFollowupsDone ==
  StreamEnded =>
    /\ Len(events) = Len(stream) + 2
    /\ \A i \in 1..Len(stream) : events[i] = ChunkEvent(stream[i])
    /\ events[Len(stream) + 1].type = "followups"
    /\ fu.called /\ fu.answer_text = Concat(stream)
    /\ events[Len(stream) + 2] = DoneEvent

\* C2: whenever build_llm_style_followups returns, for any k >= 0 it gives
\* at most k chips, each chip has a non-empty label, and the source is one
\* of openai, fallback, fallback_error.
C2_AtMostKChipsNonEmptyLabelsClosedSource ==
  (fu.called /\ ~fu.out.raised) =>
    /\ Len(fu.out.chips) <= fu.k
    /\ \A i \in 1..Len(fu.out.chips) : fu.out.chips[i].label # ""
    /\ fu.out.source \in {"openai", "fallback", "fallback_error"}

\* C2 witness: a call with k = 2 whose model output held more than two
\* suggestions returned exactly two chips from the model.
C2_Witness ==
  /\ fu.called /\ ~fu.out.raised /\ fu.k = 2
  /\ fu.out.source = "openai"
  /\ Labels(fu.out.chips) = <<"Apply now", "Housing">>

\* the followups a handler has sent: the response's list, or the list of
\* the followups event
SentFollowups ==
  IF Streamed THEN events[Len(stream) + 1] ELSE resp

HandlerAnswered ==
  \/ req.endpoint = "chat_question" /\ pc = "done"
  \/ Streamed /\ pc \in {"followups", "done"}

\* C3: in chat_question and chat_question_stream, when the escalation signal
\* is true the suggested_followups sent are exactly one chip, label "Talk to
\* an admin" and payload {type: action, action: escalate}, whatever the
\* generator produced; when it is false they are the generator's chips
\* unchanged, all of payload type faq.
C3_EscalationReplacesChips ==
  HandlerAnswered =>
    /\ SentFollowups.suggest_live_chat = fu.out.suggest_live_chat
    /\ SentFollowups.suggest_live_chat =>
         SentFollowups.suggested_followups =
           << [label |-> "Talk to an admin",
               payload |-> [type |-> "action", action |-> "escalate"]] >>
    /\ ~SentFollowups.suggest_live_chat =>
         /\ SentFollowups.suggested_followups = fu.out.chips
         /\ \A i \in 1..Len(fu.out.chips) :
              fu.out.chips[i].payload.type = "faq"

\* C3 witness: the streamed handler escalated although the generator had
\* produced several chips from the model.
C3_Witness ==
  /\ Streamed /\ pc = "done"
  /\ fu.out.suggest_live_chat
  /\ fu.out.source = "openai" /\ Len(fu.out.chips) > 1
  /\ Len(events[Len(stream) + 1].suggested_followups) = 1

\* the question, lower-cased, holds one of the escalation keywords
KeywordInQuestion ==
  \E kw \in ESCALATION_KEYWORDS : Contains(ToLower(fu.question), kw)

\* the answer, lower-cased, holds one of the low-confidence phrases
PhraseInAnswer ==
  \E i \in 1..Len(low_conf) : Contains(ToLower(fu.answer_text), low_conf[i])

\* C4: the escalation signal build_llm_style_followups returns is true
\* exactly when the lower-cased question contains an escalation keyword or
\* the lower-cased answer contains a low-confidence phrase, whatever the
\* hits, the model output and the source; a question containing "talk to
\* someone" gives true, and so does an answer containing "I don't have".
C4_EscalationIffKeywordOrPhrase ==
  (fu.called /\ ~fu.out.raised) =>
    /\ fu.out.suggest_live_chat <=> (KeywordInQuestion \/ PhraseInAnswer)
    /\ Contains(ToLower(fu.question), "talk to someone")
         => fu.out.suggest_live_chat
    /\ Contains(fu.answer_text, "I don't have") => fu.out.suggest_live_chat

\* C4 witness: a question without keyword, an answer whose chunks join to
\* "I don't have it", hits found and chips from the model: the signal is
\* true.
C4_Witness ==
  /\ Streamed /\ fu.called /\ ~fu.out.raised
  /\ fu.question = "how do I apply"
  /\ stream = <<"I don't", " have it">>
  /\ fu.out.hits # <<>> /\ fu.out.source = "openai"
  /\ fu.out.suggest_live_chat

\* the language model was to be asked and both client shapes failed
BothClientsFailed ==
  /\ fu.called
  /\ cfg.use_llm_followups /\ cfg.openai_api_key # ""
  /\ ~fu.env.mq.raised /\ ~fu.env.ma.raised
  /\ fu.env.v1.raised /\ fu.env.v0.raised

HitTitles(hits) == { hits[i].title : i \in 1..Len(hits) } \ {""}

HardcodedSuggestions == { HARDCODED[i] : i \in 1..Len(HARDCODED) }

\* C5: when model follow-ups are enabled and the call fails on the current
\* client, the legacy client is tried once; if it fails too the error does
\* not leave build_llm_style_followups: the call returns with source
\* fallback_error and chips of the fallback path, which are titles of the
\* knowledge hits or else entries of the hardcoded list.
C5_BothClientsFailingGivesFallbackError ==
  BothClientsFailed =>
    /\ ~fu.out.raised
    /\ fu.out.llm_calls = <<"v1", "v0">>
    /\ fu.out.source = "fallback_error"
    /\ \A i \in 1..Len(fu.out.chips) :
         /\ fu.out.chips[i].payload = [type |-> "faq",
                                       query |-> fu.out.chips[i].label]
         /\ IF HitTitles(Take(fu.out.hits, TitleHits)) # {}
            THEN fu.out.chips[i].label
                   \in HitTitles(Take(fu.out.hits, TitleHits))
            ELSE fu.out.chips[i].label \in HardcodedSuggestions

\* C5 witness: both clients failed and the call returned the chips of the
\* knowledge-hit titles.
C5_Witness ==
  /\ BothClientsFailed
  /\ req.endpoint = "chat_question" /\ pc = "done"
  /\ Labels(fu.out.chips) = <<"Apply now", "apply now">>

\* C6: when a document-store query fails during follow-up generation,
\* build_llm_style_followups still returns a well-formed result and the
\* handler does not fail: it returns its answer, and the streamed handler
\* goes on to emit the followups and done events.
C6_SearchFailureIsRecovered ==
  (fu.called /\ (fu.env.mq.raised \/ fu.env.ma.raised)) =>
    /\ ~fu.out.raised
    /\ fu.out.source \in {"openai", "fallback", "fallback_error"}
    /\ pc # "failed"

\* no two of the strings are equal
AllDistinct(xs) == \A i, j \in 1..Len(xs) : i # j => xs[i] # xs[j]

LowerAll(xs) == [i \in 1..Len(xs) |-> ToLower(xs[i])]

\* C7 as stated: no two chips returned by one call of
\* build_llm_style_followups have labels equal ignoring case, whichever
\* path produced the suggestions.
C7_NoCaseDuplicatesOnAnyPath ==
  (fu.called /\ ~fu.out.raised) => AllDistinct(LowerAll(Labels(fu.out.chips)))

\* the suggestions the model gave, cleaned as the generator cleans them, in
\* the order the model gave them
ModelItems ==
  LET text  == IF fu.env.v1.raised THEN fu.env.v0.text ELSE fu.env.v1.text
      items == _safe_json_list(Strip(text))
  IN  [i \in 1..Len(items) |-> CleanItem(items[i])]

\* labels are first-seen forms of items, in first-seen order: each label is
\* the first of the items equal to it ignoring case, and these first places
\* increase along the labels
FirstSeenOrder(labels, items) ==
  LET low   == LowerAll(labels)
      ilow  == LowerAll(items)
      first == [i \in 1..Len(labels) |->
                 IF \E n \in 1..Len(items) : ilow[n] = low[i]
                 THEN CHOOSE n \in 1..Len(items) :
                        /\ ilow[n] = low[i]
                        /\ \A m \in 1..(n - 1) : ilow[m] # low[i]
                 ELSE 0]
  IN  /\ \A i \in 1..Len(labels) : first[i] # 0 /\ items[first[i]] = labels[i]
      /\ \A i, j \in 1..Len(labels) : i < j => first[i] < first[j]

\* C7 amended: the chips of a call have no two labels equal ignoring case
\* when they come from the model output (source openai) or from the
\* hardcoded list (no hit has a title); chips from the model output are
\* the first-seen forms of the model's suggestions, in first-seen order.
\* Titles of knowledge hits are not deduplicated.
C7_NoCaseDuplicatesFromModelOrHardcoded ==
  (fu.called /\ ~fu.out.raised) =>
    /\ (fu.out.source = "openai" \/ HitTitles(fu.out.hits) = {})
         => AllDistinct(LowerAll(Labels(fu.out.chips)))
    /\ fu.out.source = "openai"
         => FirstSeenOrder(Labels(fu.out.chips), ModelItems)

\* C7 witness: the model gave "Apply now?" and then "apply now"; the call
\* kept the first and dropped the second.
C7_Witness ==
  /\ fu.called /\ ~fu.out.raised /\ fu.out.source = "openai"
  /\ Labels(fu.out.chips) = <<"Apply now", "Housing", "Fees", "Dorms">>
  /\ SubSeq(ModelItems, 1, 2) = <<"Apply now", "apply now">>

TicketAnswered == req.endpoint = "analyze_ticket" /\ pc = "done"

TicketLabels == {"SUBJECT:", "CATEGORY:", "PRIORITY:", "DESCRIPTION:"}

\* the provider gave no structured answer: it raised, returned a value
\* that is no string, or a text that holds none of the four labels
NoStructuredAnswer ==
  \/ resp.outcome.raised
  \/ resp.outcome.value.none
  \/ \A l \in TicketLabels : ~Contains(resp.outcome.value.text, l)

\* C8: when the provider call of analyze_ticket_request raises, returns a
\* non-string or returns text with none of the four labels, the handler
\* returns normally with subject "Support Request", category "Other",
\* priority "Medium" and the original message as description.
C8_NoStructuredAnswerGivesDefaults ==
  (TicketAnswered /\ NoStructuredAnswer) =>
    /\ resp.status = 200
    /\ resp.body = [subject |-> "Support Request", category |-> "Other",
                    priority |-> "Medium", description |-> req.text]

\* C8 witness: the provider answered with unlabelled text and the handler
\* returned the defaults with the message as description.
C8_Witness ==
  /\ TicketAnswered
  /\ ~resp.outcome.raised /\ ~resp.outcome.value.none
  /\ resp.outcome.value.text = "I cannot help with that."
  /\ req.text = "my wifi is broken"
  /\ resp.body.description = "my wifi is broken"

Categories ==
  {"Technical Support", "Academic", "Financial", "Housing", "Registration",
   "Other"}

Priorities == {"Low", "Medium", "High"}

\* the text the handler extracted for a label from the provider's answer
Extracted(label) == re_search(label, resp.outcome.value.text, FALSE)

\* C9: the result of analyze_ticket_request has a category of the six
\* categories, a priority of Low, Medium, High and a subject of at most
\* 100 characters; an extracted category or priority that is not exactly
\* a member of its enumeration is replaced by "Other" or "Medium".
C9_TicketFieldsValidated ==
  TicketAnswered =>
    /\ resp.body.category \in Categories
    /\ resp.body.priority \in Priorities
    /\ Len(resp.body.subject) <= 100
    /\ (~resp.outcome.raised /\ ~resp.outcome.value.none) =>
         /\ Extracted("CATEGORY:").found =>
              resp.body.category =
                IF Strip(Extracted("CATEGORY:").group) \in Categories
                THEN Strip(Extracted("CATEGORY:").group) ELSE "Other"
         /\ Extracted("PRIORITY:").found =>
              resp.body.priority =
                IF Strip(Extracted("PRIORITY:").group) \in Priorities
                THEN Strip(Extracted("PRIORITY:").group) ELSE "Medium"

\* C9 witness: the provider gave a subject longer than 100 characters and
\* the category "Finance"; the result has a subject of 100 characters and
\* the category "Other".
C9_Witness ==
  /\ TicketAnswered
  /\ ~resp.outcome.raised /\ ~resp.outcome.value.none
  /\ Len(Strip(Extracted("SUBJECT:").group)) > 100
  /\ Strip(Extracted("CATEGORY:").group) = "Finance"
  /\ Len(resp.body.subject) = 100
  /\ resp.body.category = "Other"

MapAnswered == req.endpoint = "analyze_map_request" /\ pc = "done"

\* the places of the alias table whose key, or whose lower-cased canonical
\* name, is a substring of the lower-cased message
MatchingAliases ==
  { i \in 1..Len(buildings) :
      \/ Contains(ToLower(req.text), buildings[i].key)
      \/ Contains(ToLower(req.text), ToLower(buildings[i].building.name)) }

\* C10: analyze_map_request returns the building record of the first alias
\* in declaration order whose key or lower-cased canonical name is a
\* substring of the lower-cased message, and location null with the generic
\* campus-map description exactly when there is none; "where is the uc"
\* gives the University Center record, "show me campus" gives null.
C10_MapReturnsFirstMatchingAlias ==
  MapAnswered =>
    /\ resp.body.location.none <=> MatchingAliases = {}
    /\ resp.body.location.none =>
         resp.body.description =
           "Here's the TAMUCC campus map showing all major buildings."
    /\ ~resp.body.location.none =>
         \E i \in MatchingAliases :
           /\ \A j \in MatchingAliases : i <= j
           /\ resp.body.location.value = buildings[i].building
    /\ req.text = "where is the uc" =>
         /\ ~resp.body.location.none
         /\ resp.body.location.value.name = "University Center (UC)"
         /\ resp.body.location.value.address = "University Center, TAMUCC"
    /\ req.text = "show me campus" => resp.body.location.none

\* C10 witness: a message naming "uc", "dining" and "library" in that
\* order resolved to the library, the first of them in the alias table.
C10_Witness ==
  /\ MapAnswered
  /\ req.text = "uc dining or library"
  /\ Cardinality(MatchingAliases) = 3
  /\ ~resp.body.location.none
  /\ resp.body.location.value.name = "Mary and Jeff Bell Library"

RoutingAnswered == req.endpoint = "analyze_routing_request" /\ pc = "done"

Greatest(S) == CHOOSE x \in S : \A y \in S : y <= x

Least(S) == CHOOSE x \in S : \A y \in S : x <= y

\* the texts pattern i isolates in the lower-cased message
SplitOf(i) == PatternSplit(ToLower(req.text), routing_patterns[i])

\* the patterns whose split of the message succeeds
SucceededPairs == { i \in 1..Len(routing_patterns) : SplitOf(i).ok }

\* the places of the routing alias table whose key is in the text
AliasesIn(text) ==
  { j \in 1..Len(routing_buildings) :
      Contains(text, routing_buildings[j].key) }

\* the building a text resolves to: that of the last alias in declaration
\* order found in it, None when there is none
ResolvedLast(text) ==
  IF AliasesIn(text) = {} THEN NoBuilding
  ELSE SomeBuilding(routing_buildings[Greatest(AliasesIn(text))].building)

\* the response for a pair of optional buildings
RoutingResponse(origin, destination) ==
  IF ~origin.none /\ ~destination.none
  THEN [origin |-> origin, destination |-> destination, found |-> TRUE]
  ELSE NotRouted

\* the succeeding patterns whose origin text, destination text, holds an
\* alias
OriginPairs == { i \in SucceededPairs : AliasesIn(SplitOf(i).origin_text) # {} }

DestinationPairs == { i \in SucceededPairs : AliasesIn(SplitOf(i).dest_text) # {} }

\* C11 as stated: the last pair whose split succeeds alone determines the
\* answer, which is what that pair's origin text and destination text
\* resolve to and nothing an earlier pair resolved.
C11_LastSucceedingPairDecidesBoth ==
  (RoutingAnswered /\ SucceededPairs # {}) =>
    resp.body =
      RoutingResponse(
        ResolvedLast(SplitOf(Greatest(SucceededPairs)).origin_text),
        ResolvedLast(SplitOf(Greatest(SucceededPairs)).dest_text))

\* C11 amended: the three pairs are tried in order without stopping, and
\* each side is decided on its own: the origin is what the last succeeding
\* pair whose origin text holds an alias resolves that text to, the
\* destination likewise, so a side that a later pair does not resolve keeps
\* the building of an earlier pair; found is true exactly when both sides
\* are decided.
C11_LastResolvingPairDecidesEachSide ==
  RoutingAnswered =>
    resp.body =
      RoutingResponse(
        IF OriginPairs = {} THEN NoBuilding
        ELSE ResolvedLast(SplitOf(Greatest(OriginPairs)).origin_text),
        IF DestinationPairs = {} THEN NoBuilding
        ELSE ResolvedLast(SplitOf(Greatest(DestinationPairs)).dest_text))

\* C11 witness: (from,to) and (get to,from) both split the message, the
\* later pair's origin text holds no alias, and the answer keeps the
\* origin of the earlier pair.
C11_Witness ==
  /\ RoutingAnswered
  /\ SucceededPairs = {1, 3}
  /\ OriginPairs = {1}
  /\ DestinationPairs = {1, 3}
  /\ resp.body.found
  /\ resp.body.origin.value.name = "Mary and Jeff Bell Library"
  /\ resp.body.destination.value.name = "University Center (UC)"

\* the places of the map handler's alias table whose key is in the text
MapAliasesIn(text) ==
  { j \in 1..Len(buildings) : Contains(text, buildings[j].key) }

\* the building the map handler's rule gives a text: that of the first
\* alias in declaration order found in it
ResolvedFirst(text) ==
  IF MapAliasesIn(text) = {} THEN NoBuilding
  ELSE SomeBuilding(
         RouteBuilding(buildings[Least(MapAliasesIn(text))].building.name,
                       buildings[Least(MapAliasesIn(text))].building.lat,
                       buildings[Least(MapAliasesIn(text))].building.lng))

\* C12: the routing handler resolves a text as the map handler does: when
\* one pair splits the message, the origin and the destination returned
\* are the buildings of the first alias in declaration order whose key is
\* a substring of the origin text and of the destination text.
C12_RoutingResolvesToFirstAlias ==
  (RoutingAnswered /\ Cardinality(SucceededPairs) = 1) =>
    resp.body =
      RoutingResponse(
        ResolvedFirst(SplitOf(Greatest(SucceededPairs)).origin_text),
        ResolvedFirst(SplitOf(Greatest(SucceededPairs)).dest_text))

\* a call of build_llm_style_followups that returned without suggestions
\* of the model
NoModelSuggestions ==
  fu.called /\ ~fu.out.raised /\ fu.out.source # "openai"

FirstOf(xs, n) == SubSeq(xs, 1, IF n < Len(xs) THEN n ELSE Len(xs))

Titled(hits) == SelectSeq(hits, LAMBDA h : h.title # "")

\* the first k titles of the hits that have one, or else the first k
\* entries of the hardcoded list
TitlesOrHardcoded(hits, k) ==
  IF Titled(hits) # <<>> /\ k >= 1
  THEN [i \in 1..Len(FirstOf(Titled(hits), k)) |-> Titled(hits)[i].title]
  ELSE FirstOf(HARDCODED, k)

WellFormedChips ==
  \A i \in 1..Len(fu.out.chips) :
    fu.out.chips[i] =
      [label |-> fu.out.chips[i].label,
       payload |-> [type |-> "faq", query |-> fu.out.chips[i].label]]

\* C13 as stated: without suggestions of the model the chips are the titles
\* of the first k hits that have a title among all the hits the search
\* returned, and the first k hardcoded entries only if no hit has a title;
\* each chip has label = suggestion and payload {type: faq, query:
\* suggestion}, and for k >= 1 there is at least one chip.
C13_FallbackIsTitlesOfAllHits ==
  NoModelSuggestions =>
    /\ Labels(fu.out.chips) = TitlesOrHardcoded(fu.out.hits, fu.k)
    /\ WellFormedChips
    /\ fu.k >= 1 => fu.out.chips # <<>>

\* C13 amended: without suggestions of the model the chips are the titles
\* of the first k hits that have a title among the first six hits the
\* search returned, and the first k hardcoded entries if none of the first
\* six has a title; each chip has label = suggestion and payload {type:
\* faq, query: suggestion}, and for k >= 1 there is at least one chip.
C13_FallbackIsTitlesOfFirstSixHits ==
  NoModelSuggestions =>
    /\ Labels(fu.out.chips) =
         TitlesOrHardcoded(FirstOf(fu.out.hits, TitleHits), fu.k)
    /\ WellFormedChips
    /\ fu.k >= 1 => fu.out.chips # <<>>

\* C13 witness: a call with k = 4 whose search returned seven hits, the
\* last four of them titled, returned the three titles within the first
\* six hits.
C13_Witness ==
  /\ NoModelSuggestions
  /\ fu.k = 4
  /\ Len(fu.out.hits) = 7
  /\ Len(Titled(fu.out.hits)) = 4
  /\ Labels(fu.out.chips) = <<"Housing", "Parking", "Tuition">>

\* the building an alias of the routing table stands for
AliasBuilding(a) ==
  routing_buildings[
    CHOOSE j \in 1..Len(routing_buildings) : routing_buildings[j].key = a
  ].building

Route(origin, destination) ==
  [origin |-> SomeBuilding(origin), destination |-> SomeBuilding(destination),
   found |-> TRUE]

\* C14: for a message "... get to X from Y" with X and Y aliases of two
\* different buildings, split by no other pair, the answer is found with
\* destination the building of X and origin the building of Y; for
\* "... from Y to X" the origin is the building of Y and the destination
\* the building of X.
C14_GetToIsDestinationFromIsOrigin ==
  RoutingAnswered =>
    \A x, y \in RouteAliases :
      AliasBuilding(x) # AliasBuilding(y) =>
        /\ (req.text = GetToMessage(x, y) /\ SucceededPairs = {3}) =>
             resp.body = Route(AliasBuilding(y), AliasBuilding(x))
        /\ (req.text = FromToMessage(y, x) /\ SucceededPairs = {1}) =>
             resp.body = Route(AliasBuilding(y), AliasBuilding(x))

====
